---- MODULE Spec2Model ----
(***************************************************************************)
(* The in-memory service registry of src/service_registry/log/index.js    *)
(* (classes ServiceRegistry, ServiceCluster, Service, lines 31-428).       *)
(*                                                                         *)
(* Strings are sequences of character codes, so that the string           *)
(* comparison used to sort the clusters and the parsing done by           *)
(* semver.satisfies are computed, not assumed.  Service objects live in a  *)
(* heap (the sequence nodes); a reference is an index into it and 0 is    *)
(* null.  Objects that were unlinked stay in the heap, because a prev      *)
(* pointer of a linked object may still reference them.                    *)
(***************************************************************************)
EXTENDS Integers, Sequences, FiniteSets, TLC

VARIABLES
  clusters,   \* ServiceRegistry.clusters: sequence of ServiceCluster records
  nodes,      \* heap of Service objects: hash, timestamp, prev, next
  timestamp,  \* ServiceRegistry.timestamp: start of the current health check cycle
  now,        \* the clock read by _getTimestamp (seconds)
  fired,      \* clock value at which the setInterval callback last ran
  running     \* FALSE once an exception escaped the timer callback (process exit)

vars == <<clusters, nodes, timestamp, now, fired, running>>

----------------------------------------------------------------------------
(* Bounds of the model *)

MaxNodes == 3     \* Spec: Service objects ever linked into a cluster
MaxTime == 2      \* Spec: last value of the clock
RotNodes == 4     \* SpecRotation: Service objects ever linked into a cluster
VerNodes == 3     \* SpecVersions: Service objects ever linked into a cluster
TimerNodes == 3   \* SpecTimer: Service objects ever linked into a cluster
TimerTime == 2    \* SpecTimer: last value of the clock
HealthNodes == 4  \* SpecHealth: Service objects ever linked into a cluster
HealthTime == 2   \* SpecHealth: last value of the clock
LiveNodes == 3    \* SpecLive: Service objects ever linked into a cluster
LiveTime == 3     \* SpecLive: last value of the clock

----------------------------------------------------------------------------
(* Strings *)

RECURSIVE Digits(_)
\* decimal rendering of a natural number, as a template literal prints it
Digits(n) == IF n < 10 THEN <<48 + n>> ELSE Digits(n \div 10) \o <<48 + (n % 10)>>

RECURSIVE ParseInt(_)
\* the number written by a sequence of decimal digits
ParseInt(s) ==
  IF s = <<>> THEN 0
  ELSE 10 * ParseInt(SubSeq(s, 1, Len(s) - 1)) + (s[Len(s)] - 48)

IsDigits(s) == s # <<>> /\ \A i \in 1..Len(s) : s[i] \in 48..57

RECURSIVE SplitDots(_)
\* the components of s between the dots
SplitDots(s) ==
  IF \A i \in 1..Len(s) : s[i] # 46 THEN <<s>>
  ELSE LET k == CHOOSE i \in 1..Len(s) :
                  s[i] = 46 /\ \A j \in 1..(i - 1) : s[j] # 46
       IN <<SubSeq(s, 1, k - 1)>> \o SplitDots(SubSeq(s, k + 1, Len(s)))

RECURSIVE StrGreater(_, _)
\* a > b on JavaScript strings: code unit by code unit, a proper prefix is smaller
StrGreater(a, b) ==
  IF a = <<>> THEN FALSE
  ELSE IF b = <<>> THEN TRUE
  ELSE IF a[1] # b[1] THEN a[1] > b[1]
  ELSE StrGreater(Tail(a), Tail(b))

\* "::ffff:"
MappedPrefix == <<58, 58, 102, 102, 102, 102, 58>>

\* String.prototype.replace(pat, ""): the first occurrence of pat is removed
ReplaceFirst(s, pat) ==
  LET hits == {i \in 1..(Len(s) - Len(pat) + 1) : SubSeq(s, i, i + Len(pat) - 1) = pat}
  IN IF hits = {} THEN s
     ELSE LET i == CHOOSE h \in hits : \A g \in hits : h <= g
          IN SubSeq(s, 1, i - 1) \o SubSeq(s, i + Len(pat), Len(s))

\* config.ipv (env REGISTRY_IPV) of the modelled deployment
ConfigIpv == "IPv4"

FormatIPV(ip) == IF ConfigIpv = "IPv4" THEN ReplaceFirst(ip, MappedPrefix) ELSE ip

\* `${name}/v${version}`
FormatClusterHash(name, version) == name \o <<47, 118>> \o version

\* `${ip}:${port}/${name}/v${version}`
FormatServiceHash(name, version, ip, port) ==
  ip \o <<58>> \o Digits(port) \o <<47>> \o name \o <<47, 118>> \o version

----------------------------------------------------------------------------
(* semver *)

\* a leading "v" is dropped by semver's parser
StripV(s) == IF s # <<>> /\ s[1] = 118 THEN Tail(s) ELSE s

\* TRUE when s is one to three dot-separated numbers (after an optional "v")
WellFormed(s) ==
  LET parts == SplitDots(StripV(s))
  IN Len(parts) \in 1..3 /\ \A i \in 1..Len(parts) : IsDigits(parts[i])

\* the numeric components of a well-formed version or partial version
Components(s) ==
  LET parts == SplitDots(StripV(s))
  IN [i \in 1..Len(parts) |-> ParseInt(parts[i])]

\* semver.satisfies(version, range) for a range that is a full or partial
\* version: "1" is 1.x.x, "1.2" is 1.2.x, "1.2.3" is exactly 1.2.3; anything
\* malformed is not satisfied
Satisfies(version, range) ==
  /\ WellFormed(version)
  /\ WellFormed(range)
  /\ Len(Components(version)) = 3
  /\ \A i \in 1..Len(Components(range)) : Components(version)[i] = Components(range)[i]

----------------------------------------------------------------------------
(* Service and ServiceCluster *)

\* new Service(name, version, ip, port) at clock value t.  reg and gone are
\* history: reg is the name and version the service was registered under (the
\* object itself keeps only the hash), gone says that a removeService call
\* for this object has returned normally
NewService(name, version, ip, port, t) ==
  [hash |-> FormatServiceHash(name, version, ip, port),
   timestamp |-> t,
   prev |-> 0,
   next |-> 0,
   reg |-> [name |-> name, version |-> version],
   gone |-> FALSE]

\* new ServiceCluster(service, version).  sel and regThenGet are history:
\* sel holds the services returned by get since the last add, remove or prune
\* of this cluster, regThenGet says that the cluster has only seen adds
\* followed by gets since it was created
NewCluster(name, version) ==
  [hash |-> FormatClusterHash(name, version),
   name |-> name,
   version |-> version,
   head |-> 0,
   cursor |-> 0,
   sel |-> <<>>,
   regThenGet |-> TRUE]

RECURSIVE Walk(_, _)
\* the services reached from cur by next pointers, in order
Walk(cur, nd) == IF cur = 0 THEN <<>> ELSE <<cur>> \o Walk(nd[cur].next, nd)

\* ServiceCluster.getAll: the traversal from the head
Entries(c, nd) == Walk(c.head, nd)

RECURSIVE FindHash(_, _, _)
\* the first service from cur on whose hash is h, or 0
FindHash(cur, nd, h) ==
  IF cur = 0 THEN 0
  ELSE IF nd[cur].hash = h THEN cur
  ELSE FindHash(nd[cur].next, nd, h)

RECURSIVE AddWalkNoDuplicateCase(_, _, _)
\* the while loop of add without the case of a duplicate node
AddWalkNoDuplicateCase(cur, nd, id) ==
  IF nd[cur].next = 0
  THEN [nd |-> [nd EXCEPT ![id].prev = cur, ![cur].next = id], err |-> ""]
  ELSE AddWalkNoDuplicateCase(nd[cur].next, nd, id)

\* the while loop of add linking the service in right behind the first node
AddWalkBehindFirst(cur, nd, id) ==
  IF nd[cur].hash = nd[id].hash
  THEN [nd |-> nd, err |-> "Service is already in cluster"]
  ELSE [nd |-> [nd EXCEPT ![id].prev = cur, ![id].next = nd[cur].next,
                          ![cur].next = id],
        err |-> ""]

RECURSIVE AddWalk(_, _, _)
\* the while loop of ServiceCluster.add, from cur
AddWalk(cur, nd, id) ==
  IF nd[cur].hash = nd[id].hash
  THEN [nd |-> nd, err |-> "Service is already in cluster"]
  ELSE IF nd[cur].next = 0
  THEN [nd |-> [nd EXCEPT ![id].prev = cur, ![cur].next = id], err |-> ""]
  ELSE AddWalk(nd[cur].next, nd, id)

\* add with the cursor moved to the service just added
ClusterAddMovesCursor(c, nd, id) ==
  IF c.head = 0
  THEN [cl |-> [c EXCEPT !.cursor = id, !.head = id], nd |-> nd, err |-> ""]
  ELSE LET r == AddWalk(c.head, nd, id)
       IN [cl |-> IF r.err = "" THEN [c EXCEPT !.cursor = id] ELSE c,
           nd |-> r.nd, err |-> r.err]

\* ServiceCluster.add(service), service being the heap object id
ClusterAdd(c, nd, id) ==
  IF c.head = 0
  THEN [cl |-> [c EXCEPT !.cursor = id, !.head = id], nd |-> nd, err |-> ""]
  ELSE LET r == AddWalk(c.head, nd, id)
       IN [cl |-> c, nd |-> r.nd, err |-> r.err]

\* keep that refreshes every service of the cluster
ClusterKeepRefreshesAll(c, nd, h, t) ==
  IF c.head = 0 THEN [cl |-> c, nd |-> nd, err |-> "Cluster is empty"]
  ELSE LET cur == FindHash(c.head, nd, h)
       IN IF cur = 0 THEN [cl |-> c, nd |-> nd, err |-> "Service not in cluster"]
          ELSE [cl |-> c,
                nd |-> [e \in 1..Len(nd) |->
                          IF e \in {Walk(c.head, nd)[i] : i \in 1..Len(Walk(c.head, nd))}
                          THEN [nd[e] EXCEPT !.timestamp = t]
                          ELSE nd[e]],
                err |-> ""]

\* ServiceCluster.keep(hash) at clock value t
ClusterKeep(c, nd, h, t) ==
  IF c.head = 0 THEN [cl |-> c, nd |-> nd, err |-> "Cluster is empty"]
  ELSE LET cur == FindHash(c.head, nd, h)
       IN IF cur = 0 THEN [cl |-> c, nd |-> nd, err |-> "Service not in cluster"]
          ELSE [cl |-> c, nd |-> [nd EXCEPT ![cur].timestamp = t], err |-> ""]

\* remove that moves the cursor to the successor of the removed service
ClusterRemoveCursorToNext(c, nd, h) ==
  IF c.head = 0 THEN [cl |-> c, nd |-> nd, err |-> "Cluster is empty"]
  ELSE LET cur == FindHash(c.head, nd, h)
       IN IF cur = 0 THEN [cl |-> c, nd |-> nd, err |-> "Service not in cluster"]
          ELSE LET p == nd[cur].prev
                   n == nd[cur].next
                   head1 == IF p = 0 THEN n ELSE c.head
                   nd1 == IF p = 0
                          THEN IF n # 0 THEN [nd EXCEPT ![n].prev = 0] ELSE nd
                          ELSE [nd EXCEPT ![p].next = n]
                   nd2 == [nd1 EXCEPT ![cur].prev = 0, ![cur].next = 0]
               IN [cl |-> [c EXCEPT !.head = head1,
                                    !.cursor = IF n # 0 THEN n ELSE head1],
                   nd |-> nd2, err |-> ""]

\* remove that leaves the cursor where it was
ClusterRemoveKeepsCursor(c, nd, h) ==
  IF c.head = 0 THEN [cl |-> c, nd |-> nd, err |-> "Cluster is empty"]
  ELSE LET cur == FindHash(c.head, nd, h)
       IN IF cur = 0 THEN [cl |-> c, nd |-> nd, err |-> "Service not in cluster"]
          ELSE LET p == nd[cur].prev
                   n == nd[cur].next
                   head1 == IF p = 0 THEN n ELSE c.head
                   nd1 == IF p = 0
                          THEN IF n # 0 THEN [nd EXCEPT ![n].prev = 0] ELSE nd
                          ELSE [nd EXCEPT ![p].next = n]
                   nd2 == [nd1 EXCEPT ![cur].prev = 0, ![cur].next = 0]
               IN [cl |-> [c EXCEPT !.head = head1], nd |-> nd2, err |-> ""]

\* remove that resets the cursor only when it is on the removed service
ClusterRemoveResetsOwnCursor(c, nd, h) ==
  IF c.head = 0 THEN [cl |-> c, nd |-> nd, err |-> "Cluster is empty"]
  ELSE LET cur == FindHash(c.head, nd, h)
       IN IF cur = 0 THEN [cl |-> c, nd |-> nd, err |-> "Service not in cluster"]
          ELSE LET p == nd[cur].prev
                   n == nd[cur].next
                   head1 == IF p = 0 THEN n ELSE c.head
                   nd1 == IF p = 0
                          THEN IF n # 0 THEN [nd EXCEPT ![n].prev = 0] ELSE nd
                          ELSE [nd EXCEPT ![p].next = n]
                   nd2 == [nd1 EXCEPT ![cur].prev = 0, ![cur].next = 0]
               IN [cl |-> [c EXCEPT !.head = head1,
                                    !.cursor = IF c.cursor = cur THEN head1 ELSE @],
                   nd |-> nd2, err |-> ""]

\* ServiceCluster.remove(hash)
ClusterRemove(c, nd, h) ==
  IF c.head = 0 THEN [cl |-> c, nd |-> nd, err |-> "Cluster is empty"]
  ELSE LET cur == FindHash(c.head, nd, h)
       IN IF cur = 0 THEN [cl |-> c, nd |-> nd, err |-> "Service not in cluster"]
          ELSE LET p == nd[cur].prev
                   n == nd[cur].next
                   \* if (!cur.prev) { head = cur.next; head && (head.prev = null) }
                   \* else cur.prev.next = cur.next
                   head1 == IF p = 0 THEN n ELSE c.head
                   nd1 == IF p = 0
                          THEN IF n # 0 THEN [nd EXCEPT ![n].prev = 0] ELSE nd
                          ELSE [nd EXCEPT ![p].next = n]
                   \* cursor = head; cur.prev = null; cur.next = null
                   nd2 == [nd1 EXCEPT ![cur].prev = 0, ![cur].next = 0]
               IN [cl |-> [c EXCEPT !.head = head1, !.cursor = head1],
                   nd |-> nd2, err |-> ""]

\* get with a cursor that stays on the last service instead of wrapping
ClusterGetNoWrap(c, nd) ==
  LET cur == c.cursor
  IN IF cur = 0 THEN [cl |-> c, node |-> 0, err |-> "Cluster is empty"]
     ELSE [cl |-> [c EXCEPT !.cursor = IF nd[cur].next = 0 THEN cur
                                       ELSE nd[cur].next],
           node |-> cur, err |-> ""]

\* get that leaves the cursor where it is
ClusterGetKeepsCursor(c, nd) ==
  LET cur == c.cursor
  IN IF cur = 0 THEN [cl |-> c, node |-> 0, err |-> "Cluster is empty"]
     ELSE [cl |-> c, node |-> cur, err |-> ""]

\* ServiceCluster.get(): the service at the cursor, the cursor moved on
ClusterGet(c, nd) ==
  LET cur == c.cursor
  IN IF cur = 0 THEN [cl |-> c, node |-> 0, err |-> "Cluster is empty"]
     ELSE [cl |-> [c EXCEPT !.cursor = IF nd[cur].next = 0 THEN c.head
                                       ELSE nd[cur].next],
           node |-> cur, err |-> ""]

RECURSIVE PruneWalkNewerThan(_, _, _, _, _)
\* the while loop of prune with the comparison turned around
PruneWalkNewerThan(cur, c, nd, ts, counter) ==
  IF cur = 0 THEN [cl |-> c, nd |-> nd, counter |-> counter, err |-> ""]
  ELSE LET nxt == nd[cur].next
       IN IF nd[cur].timestamp > ts
          THEN LET r == ClusterRemove(c, nd, nd[cur].hash)
               IN IF r.err # ""
                  THEN [cl |-> c, nd |-> nd, counter |-> counter, err |-> r.err]
                  ELSE PruneWalkNewerThan(nxt, r.cl, r.nd, ts, counter + 1)
          ELSE PruneWalkNewerThan(nxt, c, nd, ts, counter)

RECURSIVE PruneWalk(_, _, _, _, _)
\* the while loop of ServiceCluster.prune, from cur; an exception thrown by
\* remove leaves the loop with what was done so far
PruneWalk(cur, c, nd, ts, counter) ==
  IF cur = 0 THEN [cl |-> c, nd |-> nd, counter |-> counter, err |-> ""]
  ELSE LET nxt == nd[cur].next
       IN IF nd[cur].timestamp < ts
          THEN LET r == ClusterRemove(c, nd, nd[cur].hash)
               IN IF r.err # ""
                  THEN [cl |-> c, nd |-> nd, counter |-> counter, err |-> r.err]
                  ELSE PruneWalk(nxt, r.cl, r.nd, ts, counter + 1)
          ELSE PruneWalk(nxt, c, nd, ts, counter)

\* ServiceCluster.prune(timestamp)
ClusterPrune(c, nd, ts) ==
  IF c.head = 0
  THEN [cl |-> c, nd |-> nd, counter |-> 0, err |-> "Cluster is empty"]
  ELSE PruneWalk(c.head, c, nd, ts, 0)

----------------------------------------------------------------------------
(* ServiceRegistry: each method as a function of the current state and its *)
(* arguments, giving the new clusters (cs), the new heap (nd), the message *)
(* of the error thrown (err, "" when none) and the value returned          *)

\* this.clusters.find((c) => c.version === version): the index of the first
\* cluster with that version string, or 0
FindVersion(cs, version) ==
  LET hits == {k \in 1..Len(cs) : cs[k].version = version}
  IN IF hits = {} THEN 0 ELSE CHOOSE k \in hits : \A j \in hits : k <= j

\* find by a satisfying version alone, whatever the name of the cluster
FindSatisfyingAnyName(cs, name, version) ==
  LET hits == {k \in 1..Len(cs) : Satisfies(cs[k].version, version)}
  IN IF hits = {} THEN 0 ELSE CHOOSE k \in hits : \A j \in hits : k <= j

\* this.clusters.find((c) => name === c.name && semver.satisfies(c.version, version))
FindSatisfying(cs, name, version) ==
  LET hits == {k \in 1..Len(cs) : cs[k].name = name /\ Satisfies(cs[k].version, version)}
  IN IF hits = {} THEN 0 ELSE CHOOSE k \in hits : \A j \in hits : k <= j

\* the comparator (a, b) => (b.hash > a.hash ? 1 : -1)
Compare(a, b) == IF StrGreater(b.hash, a.hash) THEN 1 ELSE -1

RECURSIVE InsertSorted(_, _)
InsertSorted(c, s) ==
  IF s = <<>> THEN <<c>>
  ELSE IF Compare(c, s[1]) < 0 THEN <<c>> \o s
  ELSE <<s[1]>> \o InsertSorted(c, Tail(s))

RECURSIVE SortClusters(_)
\* this.clusters.sort(comparator); cluster hashes are pairwise different, so
\* the comparator is a strict total order and the result does not depend on
\* the sorting algorithm
SortClusters(s) ==
  IF s = <<>> THEN <<>>
  ELSE InsertSorted(s[Len(s)], SortClusters(SubSeq(s, 1, Len(s) - 1)))

\* this.clusters.splice(k, 1)
Splice(cs, k) == SubSeq(cs, 1, k - 1) \o SubSeq(cs, k + 1, Len(cs))

\* history kept in the cluster record: after an add
AfterAdd(c, old) ==
  [c EXCEPT !.sel = <<>>, !.regThenGet = old.regThenGet /\ old.sel = <<>>]

\* history: after a remove or a prune
AfterUnlink(c) == [c EXCEPT !.sel = <<>>, !.regThenGet = FALSE]

\* history: after a get that returned node id from a list of n services.  sel
\* keeps at most 2n results and drops the oldest n when full, so that the
\* position of a result in sel stays its position in the run modulo n
AfterGet(c, id, n) ==
  [c EXCEPT !.sel = IF Len(c.sel) >= 2 * n
                    THEN SubSeq(c.sel, n + 1, Len(c.sel)) \o <<id>>
                    ELSE Append(c.sel, id)]

Message(name, version, what) == [name |-> name, version |-> version, what |-> what]

\* the value of a call that returned nothing
Undefined == Message(<<>>, <<>>, "undefined")

\* registerService(name, version, ip, port).  A Service that add rejected is
\* garbage and is not kept in the heap
registerService(name, version, ip, port) ==
  LET ipv == FormatIPV(ip)
      nd1 == Append(nodes, NewService(name, version, ipv, port, now))
      id == Len(nd1)
      k == FindVersion(clusters, version)
      cs1 == IF k # 0 THEN clusters
             ELSE SortClusters(Append(clusters, NewCluster(name, version)))
      j == FindVersion(cs1, version)
      r == ClusterAdd(cs1[j], nd1, id)
  IN IF r.err # ""
     THEN [cs |-> IF k # 0 THEN clusters ELSE cs1, nd |-> nodes, err |-> r.err,
           value |-> Undefined]
     ELSE [cs |-> [cs1 EXCEPT ![j] = AfterAdd(r.cl, cs1[j])], nd |-> r.nd, err |-> "",
           value |-> Message(name, version, "added")]

\* keepService(name, version, ip, port)
keepService(name, version, ip, port) ==
  LET ipv == FormatIPV(ip)
      hash == FormatServiceHash(name, version, ipv, port)
      k == FindVersion(clusters, version)
  IN IF k = 0
     THEN [cs |-> clusters, nd |-> nodes, err |-> "Service cluster does not exist",
           value |-> Undefined]
     ELSE LET r == ClusterKeep(clusters[k], nodes, hash, now)
          IN [cs |-> [clusters EXCEPT ![k] = r.cl], nd |-> r.nd, err |-> r.err,
              value |-> Undefined]

\* removeService without the case of the empty cluster
removeServiceKeepsCluster(name, version, ip, port) ==
  LET ipv == FormatIPV(ip)
      hash == FormatServiceHash(name, version, ipv, port)
      k == FindVersion(clusters, version)
  IN IF k = 0
     THEN [cs |-> clusters, nd |-> nodes, err |-> "Service cluster does not exist",
           value |-> Undefined, node |-> 0]
     ELSE LET r == ClusterRemove(clusters[k], nodes, hash)
              cur == FindHash(clusters[k].head, nodes, hash)
          IN IF r.err # ""
             THEN [cs |-> clusters, nd |-> nodes, err |-> r.err,
                   value |-> Undefined, node |-> 0]
             ELSE [cs |-> [clusters EXCEPT ![k] = AfterUnlink(r.cl)],
                   nd |-> [r.nd EXCEPT ![cur].gone = TRUE],
                   err |-> "", value |-> Undefined, node |-> cur]

\* removeService(name, version, ip, port); the message is returned only in
\* the branch that removes the emptied cluster.  node is the object that
\* remove unlinked (0 when it threw)
removeService(name, version, ip, port) ==
  LET ipv == FormatIPV(ip)
      hash == FormatServiceHash(name, version, ipv, port)
      k == FindVersion(clusters, version)
  IN IF k = 0
     THEN [cs |-> clusters, nd |-> nodes, err |-> "Service cluster does not exist",
           value |-> Undefined, node |-> 0]
     ELSE LET r == ClusterRemove(clusters[k], nodes, hash)
              cur == FindHash(clusters[k].head, nodes, hash)
          IN IF r.err # ""
             THEN [cs |-> clusters, nd |-> nodes, err |-> r.err,
                   value |-> Undefined, node |-> 0]
             ELSE [cs |-> IF r.cl.head = 0 THEN Splice(clusters, k)
                          ELSE [clusters EXCEPT ![k] = AfterUnlink(r.cl)],
                   nd |-> [r.nd EXCEPT ![cur].gone = TRUE],
                   err |-> "",
                   value |-> IF r.cl.head = 0 THEN Message(name, version, "removed")
                             ELSE Undefined,
                   node |-> cur]

\* getService(name, version): value is the hash of the service returned, node
\* the service, cluster the index of the cluster it was taken from
getService(name, version) ==
  IF clusters = <<>>
  THEN [cs |-> clusters, err |-> "Registry does not have any clusters",
        value |-> "undefined", node |-> 0, cluster |-> 0]
  ELSE LET k == FindSatisfying(clusters, name, version)
       IN IF k = 0
          THEN [cs |-> clusters, err |-> "Service cluster does not exist",
                value |-> "undefined", node |-> 0, cluster |-> 0]
          ELSE LET r == ClusterGet(clusters[k], nodes)
               IN IF r.err # ""
                  THEN [cs |-> clusters, err |-> r.err, value |-> "undefined",
                        node |-> 0, cluster |-> k]
                  ELSE [cs |-> [clusters EXCEPT ![k] =
                                  AfterGet(r.cl, r.node, Len(Entries(clusters[k], nodes)))],
                        err |-> "", value |-> nodes[r.node].hash, node |-> r.node,
                        cluster |-> k]

\* the hashes that getAll returns for cluster c (it throws on an empty cluster)
GetAll(c, nd) == [i \in 1..Len(Entries(c, nd)) |-> nd[Entries(c, nd)[i]].hash]

\* getRegistry()
getRegistry ==
  IF \E k \in 1..Len(clusters) : clusters[k].head = 0
  THEN [err |-> "Cluster is empty", value |-> <<>>]
  ELSE [err |-> "",
        value |-> [k \in 1..Len(clusters) |->
                     [hash |-> clusters[k].hash, services |-> GetAll(clusters[k], nodes)]]]

RECURSIVE PruneEach(_, _, _, _, _)
\* this.clusters.forEach((c) => {...}) of the timer callback, from index k
\* (1-based).  forEach visits the indices that are still in the array, so
\* after a splice the element that moved into slot k is not visited.  An
\* exception thrown by prune ends the loop with what was done so far
PruneEach(k, cs, nd, ts, counter) ==
  IF k > Len(cs)
  THEN [cs |-> cs, nd |-> nd, counter |-> counter, err |-> "", pruned |-> <<>>]
  ELSE LET r == ClusterPrune(cs[k], nd, ts)
           \* the call c.prune(this.timestamp) of this iteration
           call == [hash |-> cs[k].hash, cutoff |-> ts]
       IN IF r.err # ""
          THEN [cs |-> [cs EXCEPT ![k] = AfterUnlink(r.cl)], nd |-> r.nd,
                counter |-> counter, err |-> r.err, pruned |-> <<call>>]
          ELSE LET rest ==
                     IF r.cl.head = 0
                     THEN PruneEach(k + 1, Splice(cs, k), r.nd, ts,
                                    counter + r.counter)
                     ELSE PruneEach(k + 1, [cs EXCEPT ![k] = AfterUnlink(r.cl)],
                                    r.nd, ts, counter + r.counter)
               IN [rest EXCEPT !.pruned = <<call>> \o @]

\* the body of the setInterval callback of the constructor: ts is the new
\* this.timestamp
pruneInterval ==
  IF clusters = <<>>
  THEN [cs |-> clusters, nd |-> nodes, ts |-> timestamp, counter |-> 0, err |-> "",
        pruned |-> <<>>]
  ELSE LET r == PruneEach(1, clusters, nodes, timestamp, 0)
       IN [cs |-> r.cs, nd |-> r.nd,
           ts |-> IF r.err # "" THEN timestamp ELSE now,
           counter |-> r.counter, err |-> r.err, pruned |-> r.pruned]

----------------------------------------------------------------------------
(* Actions *)

Register(name, version, ip, port) ==
  /\ running
  /\ clusters' = registerService(name, version, ip, port).cs
  /\ nodes' = registerService(name, version, ip, port).nd
  /\ UNCHANGED <<timestamp, now, fired, running>>

Keep(name, version, ip, port) ==
  /\ running
  /\ clusters' = keepService(name, version, ip, port).cs
  /\ nodes' = keepService(name, version, ip, port).nd
  /\ UNCHANGED <<timestamp, now, fired, running>>

Remove(name, version, ip, port) ==
  /\ running
  /\ clusters' = removeService(name, version, ip, port).cs
  /\ nodes' = removeService(name, version, ip, port).nd
  /\ UNCHANGED <<timestamp, now, fired, running>>

Get(name, version) ==
  /\ running
  /\ clusters' = getService(name, version).cs
  /\ UNCHANGED <<nodes, timestamp, now, fired, running>>

\* getRegistry reads the registry and changes nothing
List ==
  /\ running
  /\ getRegistry.err \in {"", "Cluster is empty"}
  /\ UNCHANGED vars

\* the timer callback runs when the clock has advanced since it last ran; an
\* exception that escapes it is uncaught and ends the process
PruneCycle ==
  /\ running
  /\ now > fired
  /\ fired' = now
  /\ clusters' = pruneInterval.cs
  /\ nodes' = pruneInterval.nd
  /\ timestamp' = pruneInterval.ts
  /\ running' = (pruneInterval.err = "")
  /\ UNCHANGED now

\* one second passes
Tick ==
  /\ running
  /\ now' = now + 1
  /\ UNCHANGED <<clusters, nodes, timestamp, fired, running>>

----------------------------------------------------------------------------
(* Inputs and specifications *)

\* "a", "b"
Names == {<<97>>, <<98>>}

\* "1.9.0"
Versions == {<<49, 46, 57, 46, 48>>}

\* "1.9.0", "1.10.0", "2.0.0"
ManyVersions == {<<49, 46, 57, 46, 48>>, <<49, 46, 49, 48, 46, 48>>,
                 <<50, 46, 48, 46, 48>>}

\* version expressions of getService: "1", "1.9", "v1.10", "1.9.0", "2"
Ranges == {<<49>>, <<49, 46, 57>>, <<118, 49, 46, 49, 48>>,
           <<49, 46, 57, 46, 48>>, <<50>>}

\* "1", "2", "::ffff:1"
IPs == {<<49>>, <<50>>, MappedPrefix \o <<49>>}

\* "1"
OneIP == {<<49>>}

Ports == {80}

\* new ServiceRegistry(): no clusters, the timestamp read from the clock
Init ==
  /\ clusters = <<>>
  /\ nodes = <<>>
  /\ now = 0
  /\ timestamp = 0
  /\ fired = 0
  /\ running = TRUE

\* the requests of the HTTP adapter, with names, versions and addresses drawn
\* from NS, VS and IS and at most maxNodes services ever linked
Requests(NS, VS, IS, maxNodes) ==
  \/ \E name \in NS, version \in VS, ip \in IS, port \in Ports :
       Len(nodes) < maxNodes /\ Register(name, version, ip, port)
  \/ \E name \in NS, version \in VS, ip \in IS, port \in Ports :
       Keep(name, version, ip, port)
  \/ \E name \in NS, version \in VS, ip \in IS, port \in Ports :
       Remove(name, version, ip, port)
  \/ \E name \in NS, version \in Ranges : Get(name, version)
  \/ List

\* requests for one version, the clock and the health check timer
Next ==
  \/ Requests(Names, Versions, IPs, MaxNodes)
  \/ PruneCycle
  \/ now < MaxTime /\ Tick

Spec == Init /\ [][Next]_vars

\* requests for one version within one health check interval
NextRotation == Requests(Names, Versions, IPs, RotNodes)

SpecRotation == Init /\ [][NextRotation]_vars

\* requests for several versions from one address within one interval
NextVersions == Requests(Names, ManyVersions, OneIP, VerNodes)

SpecVersions == Init /\ [][NextVersions]_vars

\* "1.9.0", "2.0.0"
TwoVersions == {<<49, 46, 57, 46, 48>>, <<50, 46, 48, 46, 48>>}

\* requests for two versions from one address, the clock and the health
\* check timer
NextTimer ==
  \/ Requests(Names, TwoVersions, OneIP, TimerNodes)
  \/ PruneCycle
  \/ now < TimerTime /\ Tick

SpecTimer == Init /\ [][NextTimer]_vars

\* services that register and send keep-alives but never deregister, the
\* clock and the health check timer
NextHealth ==
  \/ \E name \in Names, version \in Versions, ip \in IPs, port \in Ports :
       Len(nodes) < HealthNodes /\ Register(name, version, ip, port)
  \/ \E name \in Names, version \in Versions, ip \in IPs, port \in Ports :
       Keep(name, version, ip, port)
  \/ PruneCycle
  \/ now < HealthTime /\ Tick

SpecHealth == Init /\ [][NextHealth]_vars

\* the clock counts the intervals of setInterval: it advances when the
\* callback of the current interval has run
TickLive == now < LiveTime /\ now = fired /\ Tick

\* services that register, send keep-alives and deregister, the clock and
\* the health check timer
NextLive ==
  \/ \E name \in Names, version \in Versions, ip \in IPs, port \in Ports :
       Len(nodes) < LiveNodes /\ Register(name, version, ip, port)
  \/ \E name \in Names, version \in Versions, ip \in IPs, port \in Ports :
       Keep(name, version, ip, port)
  \/ \E name \in Names, version \in Versions, ip \in IPs, port \in Ports :
       Remove(name, version, ip, port)
  \/ PruneCycle
  \/ TickLive

\* the enabling condition of PruneCycle: the callback of the current
\* interval has not run yet
PruneDue == running /\ now > fired

\* setInterval keeps calling the callback and the clock keeps advancing.
\* The last conjunct is WF_vars(PruneCycle) written with the enabling
\* condition of PruneCycle: a PruneCycle step makes PruneDue false, no other
\* step of NextLive does, and every PruneCycle step changes fired
SpecLive ==
  Init /\ [][NextLive]_vars /\ WF_vars(TickLive) /\ []<>~PruneDue

----------------------------------------------------------------------------
(* Properties *)

\* the elements of a sequence
Elems(s) == {s[i] : i \in 1..Len(s)}

\* the services listed in the registry cs with heap nd
Listed(cs, nd) == UNION {Elems(Entries(cs[k], nd)) : k \in 1..Len(cs)}

\* the services listed under the cluster of cs with this version string
EntriesOf(cs, nd, version) ==
  IF FindVersion(cs, version) = 0 THEN <<>>
  ELSE Entries(cs[FindVersion(cs, version)], nd)

\* s without the element x
Without(s, x) == SelectSeq(s, LAMBDA e : e # x)

\* semantic version precedence: a is lower than b (major, then minor, then
\* patch, compared as numbers)
PrecedenceLess(a, b) ==
  LET x == Components(a)
      y == Components(b)
  IN \/ x[1] < y[1]
     \/ x[1] = y[1] /\ x[2] < y[2]
     \/ x[1] = y[1] /\ x[2] = y[2] /\ x[3] < y[3]

\* C1: in a cluster of n >= 1 services, any n consecutive results of get with
\* no add, remove or prune of that cluster in between are the n services of
\* the cluster, each exactly once, wherever the cursor stood at the first call
RoundRobinComplete ==
  \A k \in 1..Len(clusters) :
    LET c == clusters[k]
        es == Entries(c, nodes)
        n == Len(es)
    IN n >= 1 =>
         \A i \in 1..(Len(c.sel) - n + 1) :
           /\ {c.sel[j] : j \in i..(i + n - 1)} = Elems(es)
           /\ \A j1, j2 \in i..(i + n - 1) : c.sel[j1] = c.sel[j2] => j1 = j2

\* C1 witness: a cluster of three services has answered three calls in a row,
\* the first of them with a service that is not the head
RoundRobinCompleteWitness ==
  \E k \in 1..Len(clusters) :
    /\ Len(Entries(clusters[k], nodes)) = 3
    /\ Len(clusters[k].sel) >= 3
    /\ clusters[k].sel[1] # clusters[k].head

\* C2: in a cluster that has only received registrations, followed by
\* resolve calls, the list is in registration order and the i-th call returns
\* the entry at position ((i - 1) mod n) + 1: the first registered entry
\* first, and the first again after the last
InsertionOrderRotation ==
  \A k \in 1..Len(clusters) :
    LET c == clusters[k]
        es == Entries(c, nodes)
        n == Len(es)
    IN c.regThenGet =>
         /\ \A i, j \in 1..n : i < j => es[i] < es[j]
         /\ \A i \in 1..Len(c.sel) : c.sel[i] = es[((i - 1) % n) + 1]

\* C2 witness: two entries A, B registered, then three calls: A, B, A
InsertionOrderRotationWitness ==
  \E k \in 1..Len(clusters) :
    /\ clusters[k].regThenGet
    /\ Len(Entries(clusters[k], nodes)) = 2
    /\ Len(clusters[k].sel) = 3
    /\ clusters[k].sel[3] = clusters[k].head

\* C3: an entry whose deregister call succeeded is not listed in any cluster
\* and is not returned by resolve (a later registration of the same tuple is
\* a new Service object)
DeregisteredAbsent ==
  /\ \A e \in Listed(clusters, nodes) : ~nodes[e].gone
  /\ \A name \in Names, range \in Ranges :
       getService(name, range).err = "" => ~nodes[getService(name, range).node].gone

\* C4: a successful deregister leaves, in every cluster, the entries other
\* than its target that were listed before, all of them and in the same order
DeregisterRemovesOnlyTarget ==
  \A name \in Names, version \in Versions, ip \in IPs, port \in Ports :
    LET r == removeService(name, version, ip, port)
    IN r.err = "" =>
         \A k \in 1..Len(clusters) :
           Without(EntriesOf(r.cs, r.nd, clusters[k].version), r.node)
             = Without(Entries(clusters[k], nodes), r.node)

\* C5: after a health check cycle that ran on a non-empty registry, no
\* listed entry has a timestamp earlier than the cutoff of the cycle (the
\* timestamp recorded by the previous cycle)
PruneRemovesStale ==
  (running /\ now > fired /\ clusters # <<>> /\ pruneInterval.err = "") =>
    \A e \in Listed(pruneInterval.cs, pruneInterval.nd) :
      ~(pruneInterval.nd[e].timestamp < timestamp)

\* C6: an entry whose timestamp is not earlier than the cutoff is still
\* listed after the health check cycle
PruneKeepsFresh ==
  (running /\ now > fired /\ pruneInterval.err = "") =>
    \A e \in Listed(clusters, nodes) :
      nodes[e].timestamp >= timestamp => e \in Listed(pruneInterval.cs, pruneInterval.nd)

\* C7: a successful resolve selects from a cluster that no cluster with the
\* requested name and a satisfying version precedes in semantic version
\* precedence
ResolveHighestPrecedence ==
  \A name \in Names, range \in Ranges :
    LET r == getService(name, range)
    IN r.err = "" =>
         \A j \in 1..Len(clusters) :
           (clusters[j].name = name /\ Satisfies(clusters[j].version, range))
             => ~PrecedenceLess(clusters[r.cluster].version, clusters[j].version)

\* C8: the clusters are in descending semantic version precedence
ClustersSortedByPrecedence ==
  \A i, j \in 1..Len(clusters) :
    i < j => ~PrecedenceLess(clusters[i].version, clusters[j].version)

\* C9: every entry listed in a cluster was registered under the name and the
\* version of that cluster
EntriesMatchCluster ==
  \A k \in 1..Len(clusters) :
    \A e \in Elems(Entries(clusters[k], nodes)) :
      /\ nodes[e].reg.name = clusters[k].name
      /\ nodes[e].reg.version = clusters[k].version

\* C10: a successful resolve(name, range) returns an entry registered under
\* that name with a version that satisfies the range
ResolveReturnsRequested ==
  \A name \in Names, range \in Ranges :
    LET r == getService(name, range)
    IN r.err = "" =>
         /\ nodes[r.node].reg.name = name
         /\ Satisfies(nodes[r.node].reg.version, range)

\* the tuple (name, version, ip, port) is currently registered: an entry
\* listed in some cluster carries its hash
Registered(name, version, ip, port) ==
  \E e \in Listed(clusters, nodes) :
    nodes[e].hash = FormatServiceHash(name, version, FormatIPV(ip), port)

\* C11: registering a tuple that is currently registered fails with "Service
\* is already in cluster" and leaves the clusters, their entries and their
\* cursors as they were
DuplicateRegisterFails ==
  \A name \in Names, version \in Versions, ip \in IPs, port \in Ports :
    Registered(name, version, ip, port) =>
      LET r == registerService(name, version, ip, port)
      IN /\ r.err = "Service is already in cluster"
         /\ r.cs = clusters
         /\ r.nd = nodes

\* C11 witness: a cluster of three entries whose cursor is not on the head,
\* and the last of its entries is registered again
DuplicateRegisterFailsWitness ==
  \E name \in Names, version \in Versions, ip \in IPs, port \in Ports :
    \E k \in 1..Len(clusters) :
      /\ Len(Entries(clusters[k], nodes)) = 3
      /\ clusters[k].cursor # clusters[k].head
      /\ nodes[Entries(clusters[k], nodes)[3]].hash
           = FormatServiceHash(name, version, FormatIPV(ip), port)
      /\ registerService(name, version, ip, port).err = "Service is already in cluster"

\* C12: no cluster of the registry is empty, and a deregister that succeeds
\* on a cluster listing one entry leaves no cluster with that hash
NoEmptyCluster ==
  /\ \A k \in 1..Len(clusters) : Entries(clusters[k], nodes) # <<>>
  /\ \A name \in Names, version \in TwoVersions, ip \in IPs, port \in Ports :
       LET r == removeService(name, version, ip, port)
           k == FindVersion(clusters, version)
       IN (r.err = "" /\ Len(Entries(clusters[k], nodes)) = 1) =>
            \A j \in 1..Len(r.cs) : r.cs[j].hash # clusters[k].hash

\* C12 witness: one cluster was removed when its only entry was
\* deregistered, another when the health check pruned its only entry, and a
\* cluster registered since is listed
NoEmptyClusterWitness ==
  /\ running
  /\ fired = now
  /\ clusters # <<>>
  /\ \E d, e \in 1..Len(nodes) :
       /\ nodes[d].gone
       /\ ~nodes[e].gone
       /\ nodes[e].timestamp < timestamp
       /\ {d, e} \cap Listed(clusters, nodes) = {}
       /\ nodes[d].reg.version # nodes[e].reg.version

\* a cluster with exactly this name and this version is in the registry
HasCluster(name, version) ==
  \E k \in 1..Len(clusters) : clusters[k].name = name /\ clusters[k].version = version

\* C13: deregister for a (name, version) that has no cluster fails with
\* "Service cluster does not exist", also when a cluster of another name has
\* that version, and changes nothing
DeregisterClusterNotFound ==
  \A name \in Names, version \in Versions, ip \in IPs, port \in Ports :
    ~HasCluster(name, version) =>
      LET r == removeService(name, version, ip, port)
      IN /\ r.err = "Service cluster does not exist"
         /\ r.cs = clusters
         /\ r.nd = nodes

\* C14: every deregister that succeeds returns the message "Service <name> at
\* version <version> was successfully removed from the registry.", whether
\* the cluster keeps entries or is removed
DeregisterReturnsConfirmation ==
  \A name \in Names, version \in Versions, ip \in IPs, port \in Ports :
    LET r == removeService(name, version, ip, port)
    IN r.err = "" => r.value = Message(name, version, "removed")

\* C15: the cursor of every cluster references an entry reached from the head
\* of that cluster; it is unset only in a cluster without entries
CursorOnList ==
  \A k \in 1..Len(clusters) :
    LET c == clusters[k]
    IN IF c.cursor = 0 THEN Entries(c, nodes) = <<>>
       ELSE c.cursor \in Elems(Entries(c, nodes))

\* C15 witness: after a deregister unlinked an entry, resolve calls have
\* moved the cursor to the last of the three entries left
CursorOnListWitness ==
  \E k \in 1..Len(clusters) :
    LET es == Entries(clusters[k], nodes)
    IN /\ Len(es) = 3
       /\ clusters[k].cursor = es[3]
       /\ \E d \in 1..Len(nodes) : nodes[d].gone /\ d \notin Listed(clusters, nodes)

\* the entries of cluster c that are still listed in registry cs with heap
\* nd, in the order of c
Remaining(c, cs, nd) ==
  SelectSeq(Entries(c, nodes), LAMBDA e : e \in Listed(cs, nd))

\* registry cs holds the cluster with the hash of c, and its cursor is on
\* service e
CursorAt(c, cs, e) ==
  \E j \in 1..Len(cs) : cs[j].hash = c.hash /\ cs[j].cursor = e

\* C16: when a deregister or a health check cycle removes the entry under
\* the cursor of a cluster, the cursor is afterwards on the first of the
\* entries that remain; and after the first of two entries was deregistered,
\* resolve returns the other entry and keeps returning it
CursorResetToHead ==
  /\ \A name \in Names, version \in TwoVersions, ip \in IPs, port \in Ports :
       LET r == removeService(name, version, ip, port)
           c == clusters[FindVersion(clusters, version)]
           es == Entries(c, nodes)
           rest == Remaining(c, r.cs, r.nd)
       IN (r.err = "" /\ c.cursor = r.node) =>
            /\ rest # <<>> => CursorAt(c, r.cs, rest[1])
            /\ (Len(es) = 2 /\ r.node = es[1]) =>
                 LET c2 == r.cs[FindVersion(r.cs, version)]
                 IN /\ ClusterGet(c2, r.nd).node = es[2]
                    /\ ClusterGet(c2, r.nd).cl.cursor = es[2]
  /\ (running /\ now > fired) =>
       \A k \in 1..Len(clusters) :
         LET c == clusters[k]
             rest == Remaining(c, pruneInterval.cs, pruneInterval.nd)
         IN (c.cursor \notin Listed(pruneInterval.cs, pruneInterval.nd)
             /\ rest # <<>>) => CursorAt(c, pruneInterval.cs, rest[1])

\* C16 witness: a cluster of two entries, the first fresh and the second,
\* under the cursor, stale; the health check cycle that is due, and a
\* deregister of the second, each leave the cursor on the first
CursorResetToHeadWitness ==
  /\ running
  /\ now > fired
  /\ \E k \in 1..Len(clusters) :
       LET c == clusters[k]
           es == Entries(c, nodes)
       IN /\ Len(es) = 2
          /\ c.cursor = es[2]
          /\ nodes[es[1]].timestamp >= timestamp
          /\ nodes[es[2]].timestamp < timestamp
          /\ es[2] \notin Listed(pruneInterval.cs, pruneInterval.nd)
          /\ CursorAt(c, pruneInterval.cs, es[1])
          /\ \E name \in Names, ip \in IPs, port \in Ports :
               /\ removeService(name, c.version, ip, port).node = es[2]
               /\ CursorAt(c, removeService(name, c.version, ip, port).cs, es[1])

\* the `${ip}:${port}` part of a service hash: what precedes the first "/"
Endpoint(h) ==
  LET k == CHOOSE i \in 1..Len(h) : h[i] = 47 /\ \A j \in 1..(i - 1) : h[j] # 47
  IN SubSeq(h, 1, k - 1)

\* C17: no cluster lists two entries with the same address and port
UniqueEndpointInCluster ==
  \A k \in 1..Len(clusters) :
    \A d, e \in Elems(Entries(clusters[k], nodes)) :
      Endpoint(nodes[d].hash) = Endpoint(nodes[e].hash) => d = e

\* C18: resolve fails with "Registry does not have any clusters" when the
\* registry has no cluster and with "Service cluster does not exist" when no
\* cluster has the requested name and a version satisfying the expression;
\* a resolve that fails leaves every cluster, entry and cursor as it was
ResolveErrors ==
  \A name \in Names, range \in Ranges :
    LET r == getService(name, range)
    IN /\ clusters = <<>> => r.err = "Registry does not have any clusters"
       /\ (/\ clusters # <<>>
           /\ ~\E k \in 1..Len(clusters) :
                 clusters[k].name = name /\ Satisfies(clusters[k].version, range))
            => r.err = "Service cluster does not exist"
       /\ r.err # "" => r.cs = clusters

\* C18 witness: the registry holds a cluster of the requested name whose
\* version does not satisfy the expression and a cluster of another name
\* whose version does, with a cursor off the head; resolve fails
ResolveErrorsWitness ==
  \E name \in Names, range \in Ranges :
    /\ getService(name, range).err = "Service cluster does not exist"
    /\ \E j, k \in 1..Len(clusters) :
         /\ clusters[j].name = name
         /\ clusters[k].name # name
         /\ Satisfies(clusters[k].version, range)
         /\ clusters[k].cursor # clusters[k].head

\* C19: keepAlive fails with "Service cluster does not exist" when no cluster
\* has exactly this name and version, and with "Service not in cluster" when
\* that cluster exists and lists no entry with this address and port; in both
\* cases no timestamp and nothing else changes
KeepAliveErrors ==
  \A name \in Names, version \in Versions, ip \in IPs, port \in Ports :
    LET r == keepService(name, version, ip, port)
        endpoint == FormatIPV(ip) \o <<58>> \o Digits(port)
    IN /\ ~HasCluster(name, version) =>
            /\ r.err = "Service cluster does not exist"
            /\ r.cs = clusters
            /\ r.nd = nodes
       /\ \A k \in 1..Len(clusters) :
            (/\ clusters[k].name = name
             /\ clusters[k].version = version
             /\ \A e \in Elems(Entries(clusters[k], nodes)) :
                  Endpoint(nodes[e].hash) # endpoint)
              => /\ r.err = "Service not in cluster"
                 /\ r.cs = clusters
                 /\ r.nd = nodes

\* C20: no error raised while one cluster is pruned escapes the health check
\* cycle: the cycle that is due runs to its end and records its timestamp
PruneFailureIsolated ==
  (running /\ now > fired /\ clusters # <<>>) =>
    /\ pruneInterval.err = ""
    /\ pruneInterval.ts = now

\* service e is listed and its timestamp is earlier than the timestamp the
\* last health check cycle recorded
Stale(e) ==
  /\ e <= Len(nodes)
  /\ e \in Listed(clusters, nodes)
  /\ nodes[e].timestamp < timestamp

PartiallyUnlinked(c, e) ==
  /\ e \in Elems(Entries(c, nodes))
  /\ e # c.head
  /\ nodes[e].prev = 0

\* C22: the timer callback and the requests run one at a time, so a resolve
\* reads its cluster as a completed operation left it: with the cursor on
\* an entry of the list and with no partially unlinked entry
ResolveObservesWholeCluster ==
  \A name \in Names, range \in Ranges :
    LET r == getService(name, range)
    IN r.err = "" =>
         LET c == clusters[r.cluster]
         IN /\ c.cursor \in Elems(Entries(c, nodes))
            /\ \A e \in Elems(Entries(c, nodes)) : ~PartiallyUnlinked(c, e)

\* the calls c.prune(ts) that the timer callback, run in the current state,
\* makes on the cluster with this hash
PrunedWith(hash, ts) ==
  {i \in 1..Len(pruneInterval.pruned) :
     pruneInterval.pruned[i] = [hash |-> hash, cutoff |-> ts]}

\* C23: a prune cycle over a non-empty registry prunes every cluster present
\* at its start exactly once, with the timestamp the previous cycle recorded
\* as cutoff, also when an earlier cluster is emptied and removed in the cycle
EveryClusterPrunedOnce ==
  (PruneDue /\ clusters # <<>>) =>
    /\ Len(pruneInterval.pruned) = Len(clusters)
    /\ \A k \in 1..Len(clusters) :
         Cardinality(PrunedWith(clusters[k].hash, timestamp)) = 1

\* C24: a register into an existing cluster appends at the tail: what getAll
\* returns afterwards is what it returned before followed by the new entry,
\* and the cursor of the cluster is the one it had
RegisterAppendsAtTail ==
  \A name \in Names, version \in Versions, ip \in IPs, port \in Ports :
    LET r == registerService(name, version, ip, port)
        k == FindVersion(clusters, version)
    IN (k # 0 /\ r.err = "") =>
         /\ GetAll(r.cs[k], r.nd) =
              Append(GetAll(clusters[k], nodes),
                     FormatServiceHash(name, version, FormatIPV(ip), port))
         /\ r.cs[k].cursor = clusters[k].cursor

\* a cluster of three entries whose last operation was the add of the third,
\* with the cursor on the second
RegisterAppendsAtTailWitness ==
  \E k \in 1..Len(clusters) :
    /\ Len(Entries(clusters[k], nodes)) = 3
    /\ Entries(clusters[k], nodes)[3] = Len(nodes)
    /\ clusters[k].cursor = Entries(clusters[k], nodes)[2]
    /\ clusters[k].sel = <<>>

\* C25: a successful keepService changes the timestamp of the entry it was
\* called for, to the current time, and nothing else: the clusters, their
\* order, their entries and cursors and every other entry stay as they were
KeepAliveChangesOnlyLastSeen ==
  \A name \in Names, version \in Versions, ip \in IPs, port \in Ports :
    LET r == keepService(name, version, ip, port)
        h == FormatServiceHash(name, version, FormatIPV(ip), port)
    IN r.err = "" =>
         /\ r.cs = clusters
         /\ \E e \in Listed(clusters, nodes) :
              /\ nodes[e].hash = h
              /\ r.nd = [nodes EXCEPT ![e].timestamp = now]

\* two entries of one cluster of which the one registered first was seen
\* last: a keepService has refreshed it
KeepAliveChangesOnlyLastSeenWitness ==
  \E k \in 1..Len(clusters) :
    \E e, d \in Elems(Entries(clusters[k], nodes)) :
      /\ e < d
      /\ nodes[e].timestamp > nodes[d].timestamp

\* the entry one position behind e in the sequence es, the first after the
\* last
NextInRotation(es, e) ==
  LET p == CHOOSE i \in 1..Len(es) : es[i] = e
  IN es[(p % Len(es)) + 1]

\* C26: a successful getService changes the cursor of the cluster it selected
\* from, which moves on by one position and from the tail to the head, and
\* nothing else: the clusters, their order, their heads and the cursors of
\* the other clusters stay as they were (sel is the history of the results)
ResolveChangesOnlyCursor ==
  \A name \in Names, range \in Ranges :
    LET r == getService(name, range)
        k == r.cluster
    IN r.err = "" =>
         /\ clusters[k].cursor \in Elems(Entries(clusters[k], nodes))
         /\ r.cs = [clusters EXCEPT
                      ![k].cursor = NextInRotation(Entries(clusters[k], nodes), @),
                      ![k].sel = r.cs[k].sel]

\* two clusters, one of them with two entries and the cursor back on its
\* head after two calls in a row, the second answered with the tail
ResolveChangesOnlyCursorWitness ==
  /\ Len(clusters) >= 2
  /\ \E k \in 1..Len(clusters) :
       /\ Len(Entries(clusters[k], nodes)) = 2
       /\ Len(clusters[k].sel) = 2
       /\ clusters[k].sel[2] = Entries(clusters[k], nodes)[2]
       /\ clusters[k].cursor = clusters[k].head

\* in registry cs the cluster with the hash of c, when it is still there, has
\* its cursor on its head
CursorOnHead(c, cs) ==
  \A j \in 1..Len(cs) : cs[j].hash = c.hash => cs[j].cursor = cs[j].head

\* the timer callback, run in the current state, removes an entry of
\* cluster c: it calls prune on c and c has an entry older than the cutoff
PruneRemovesFrom(c) ==
  /\ \E i \in 1..Len(pruneInterval.pruned) : pruneInterval.pruned[i].hash = c.hash
  /\ \E e \in Elems(Entries(c, nodes)) : nodes[e].timestamp < timestamp

\* C27: after every removal of an entry that succeeds, by removeService or
\* by the health check, the cursor of the cluster is its head, wherever the
\* cursor was and whichever entry was removed
RemovalRestartsRotation ==
  /\ \A name \in Names, version \in Versions, ip \in IPs, port \in Ports :
       LET r == removeService(name, version, ip, port)
       IN r.err = "" => CursorOnHead(clusters[FindVersion(clusters, version)], r.cs)
  /\ PruneDue =>
       \A k \in 1..Len(clusters) :
         PruneRemovesFrom(clusters[k]) => CursorOnHead(clusters[k], pruneInterval.cs)

\* a cluster of three entries with the cursor on the second, the first two
\* fresh and the third stale: the health check that is due, and a
\* removeService of the third, each remove the third and leave the cursor
\* on the first
RemovalRestartsRotationWitness ==
  /\ PruneDue
  /\ \E k \in 1..Len(clusters) :
       LET c == clusters[k]
           es == Entries(c, nodes)
       IN /\ Len(es) = 3
          /\ c.cursor = es[2]
          /\ nodes[es[1]].timestamp >= timestamp
          /\ nodes[es[2]].timestamp >= timestamp
          /\ nodes[es[3]].timestamp < timestamp
          /\ es[3] \notin Listed(pruneInterval.cs, pruneInterval.nd)
          /\ CursorAt(c, pruneInterval.cs, es[1])
          /\ \E name \in Names, version \in Versions, ip \in IPs, port \in Ports :
               LET r == removeService(name, version, ip, port)
               IN /\ r.err = ""
                  /\ r.node = es[3]
                  /\ es[3] \notin Listed(r.cs, r.nd)
                  /\ CursorAt(c, r.cs, es[1])

\* the last request for the service with hash h was a removeService that
\* returned normally: the service has been registered, and every Service
\* object created for it has been deregistered
Deregistered(h) ==
  /\ \E e \in 1..Len(nodes) : nodes[e].hash = h
  /\ \A e \in 1..Len(nodes) : nodes[e].hash = h => nodes[e].gone

\* C28: a service that was deregistered can be registered again: the call
\* is not rejected as a duplicate, and the service is then exactly once in
\* the list of its cluster
ReregisterAfterDeregister ==
  \A name \in Names, version \in Versions, ip \in IPs, port \in Ports :
    LET h == FormatServiceHash(name, version, FormatIPV(ip), port)
        r == registerService(name, version, ip, port)
    IN Deregistered(h) =>
         /\ r.err = ""
         /\ Cardinality({e \in Listed(r.cs, r.nd) : r.nd[e].hash = h}) = 1

\* C29: the list of every cluster is consistent: the prev of the head is
\* null, the prev of every other entry reached from the head is the entry
\* before it, and no entry reached from the head has a prev that points to
\* an entry that is no longer on a list
LinkedListConsistent ==
  \A k \in 1..Len(clusters) :
    LET es == Entries(clusters[k], nodes)
    IN /\ es # <<>> => nodes[es[1]].prev = 0
       /\ \A i \in 1..(Len(es) - 1) : nodes[es[i + 1]].prev = es[i]
       /\ \A i \in 1..Len(es) :
            nodes[es[i]].prev # 0 => nodes[es[i]].prev \in Listed(clusters, nodes)

====
